---- MODULE Spec2Model ----
(***************************************************************************)
(* Model of mitremappingv3.py: a Tk front end that, for every non-blank    *)
(* submission, starts a worker thread running find_similar_techniques      *)
(* (encode the query, fetch the ATT&CK techniques, rank them by cosine     *)
(* similarity, put the formatted top 3 on result_queue) while the Tk loop  *)
(* polls result_queue from the check_queue timer callback.                 *)
(*                                                                         *)
(* Texts are sequences of tokens: the token "\n" is a line break, every    *)
(* other token is a fragment of a line.  A similarity is an integer number *)
(* of ten-thousandths, the cosine rounded as the '.4f' format rounds it,   *)
(* with the sign of the cosine kept beside it for the values that round to *)
(* zero.                                                                   *)
(***************************************************************************)
EXTENDS Integers, Sequences, FiniteSets, TLC

VARIABLES
    workers,     \* threads started by on_submit, in start order; each holds
                 \* the locals of its find_similar_techniques frame
    progress,    \* progress_bar['value']
    display,     \* content of the result_text widget
    queue,       \* result_queue
    armed,       \* a check_queue call is scheduled with root.after
    infoShown,   \* number of messagebox.showinfo dialogs raised
    errors,      \* messagebox.showerror dialogs raised: [w, step]
    posted,      \* history: every text put on result_queue, in put order
    postedBy,    \* history: the worker that put posted[i]
    nTaken,      \* history: number of successful get_nowait calls
    writer       \* history: for each widget the thread on which its last
                 \* write was executed, and the thread that called the last
                 \* progress update: "ui" is the thread of root.mainloop,
                 \* "worker" a started thread

vars == <<workers, progress, display, queue, armed, infoShown, errors,
          posted, postedBy, nTaken, writer>>

----------------------------------------------------------------------------
(* Bounds *)

MaxSubmits == 2        \* on_submit invocations explored
MaxCandidates == 4     \* techniques returned by one fetch in RankSpec

----------------------------------------------------------------------------
(* Program constants *)

TopK == 3              \* [:3]
SimScale == 10000      \* '.4f'
AfterEncode == 20
AfterFetch == 50
AfterRank == 100

----------------------------------------------------------------------------
(* Generic helpers *)

Min(a, b) == IF a < b THEN a ELSE b

Abs(a) == IF a < 0 THEN 0 - a ELSE a

SeqsUpTo(S, n) == UNION {[1..k -> S] : k \in 0..n}

IsPrefix(s, t) == Len(s) <= Len(t) /\ SubSeq(t, 1, Len(s)) = s

Range(s) == {s[i] : i \in DOMAIN s}

----------------------------------------------------------------------------
(* str.strip and the blank test of on_submit *)

\* A sentence is a sequence of characters, one token each; a character
\* without an escape is written by its code point.  These are the 29
\* characters str.strip() removes.
Whitespace ==
    {"\t", "\n", "U+000B", "\f", "\r", "U+001C", "U+001D", "U+001E", "U+001F",
     " ", "U+0085", "U+00A0", "U+1680", "U+2000", "U+2001", "U+2002",
     "U+2003", "U+2004", "U+2005", "U+2006", "U+2007", "U+2008", "U+2009",
     "U+200A", "U+2028", "U+2029", "U+202F", "U+205F", "U+3000"}

RECURSIVE LStrip(_)
LStrip(s) ==
    IF s # <<>> /\ Head(s) \in Whitespace THEN LStrip(Tail(s)) ELSE s

RECURSIVE RStrip(_)
RStrip(s) ==
    IF s # <<>> /\ s[Len(s)] \in Whitespace
    THEN RStrip(SubSeq(s, 1, Len(s) - 1))
    ELSE s

Strip(s) == RStrip(LStrip(s))

IsBlankNoStrip(sentence) == sentence = <<>>

\* 'not sentence.strip()'
IsBlank(sentence) == Strip(sentence) = <<>>

----------------------------------------------------------------------------
(* The embedding model and the cosine similarity *)

\* An embedding is given by its direction.  The sentence-embedding model
\* ends with a normalisation layer, so no text is given the zero vector.
Vectors == {<<0, 1>>, <<1, 0>>, <<1, 1>>}

\* model.encode(sentence): the query embedding
EncodeSentence(sentence) ==
    CASE sentence = <<" ", "a">> -> <<1, 0>>
      [] sentence = <<"a", "b">> -> <<1, 1>>
      [] OTHER -> <<0, 1>>

\* model.encode(description): one embedding per description
EncodeDescription(d) ==
    CASE d = "d1" -> <<1, 0>>
      [] d = "d2" -> <<1, 1>>
      [] OTHER -> <<0, 1>>

Dot(a, b) == a[1] * b[1] + a[2] * b[2]

RECURSIVE ISqrtIn(_, _, _)
ISqrtIn(lo, hi, x) ==
    IF lo >= hi THEN lo
    ELSE LET mid == (lo + hi + 1) \div 2
         IN  IF mid * mid <= x THEN ISqrtIn(mid, hi, x)
                               ELSE ISqrtIn(lo, mid - 1, x)

\* [q, r] with k * p = q * n + r and 0 <= r < n, for 0 <= p <= n, computed
\* bit by bit so that no intermediate product leaves the 32-bit integers
RECURSIVE MulDivMod(_, _, _)
MulDivMod(k, p, n) ==
    IF k = 0 THEN [q |-> 0, r |-> 0]
    ELSE LET h == MulDivMod(k \div 2, p, n)
             r2 == 2 * h.r + (IF k % 2 = 1 THEN p ELSE 0)
         IN  [q |-> 2 * h.q + (r2 \div n), r |-> r2 % n]

\* util.pytorch_cos_sim, a library function whose code is not part of the
\* repository: the cosine of the two vectors, with the convention of the
\* specification (section 4.1) that a zero-norm vector scores 0.  No
\* embedding of the encoder above has zero norm, so that branch is never
\* taken in the specifications below.
\* The cosine d / sqrt(na * nb) is given in ten-thousandths, rounded to the
\* nearest as '.4f' rounds it: round(x) = (floor(2x) + 1) div 2.  Exact for
\* na * nb below 2^29.
CosSim(a, b) ==
    LET na == Dot(a, a)
        nb == Dot(b, b)
        d  == Dot(a, b)
    IN  IF na = 0 \/ nb = 0 THEN 0
        ELSE LET twice == ISqrtIn(0, 2 * SimScale,
                             MulDivMod(4 * SimScale * SimScale,
                                       d * d, na * nb).q)
                 m == (twice + 1) \div 2
             IN  IF d < 0 THEN 0 - m ELSE m

\* the sign bit of the cosine: a negative cosine that rounds to zero is
\* still printed with its sign
CosNegative(a, b) == Dot(a, a) # 0 /\ Dot(b, b) # 0 /\ Dot(a, b) < 0

----------------------------------------------------------------------------
(* Lines 57-65: technique_details *)

Get(d, k, default) == IF k \in DOMAIN d THEN d[k] ELSE default

RECURSIVE JoinStr(_, _)
JoinStr(parts, sep) ==
    IF parts = <<>> THEN ""
    ELSE IF Len(parts) = 1 THEN parts[1]
    ELSE parts[1] \o sep \o JoinStr(Tail(parts), sep)

DetailOneDefault(technique) ==
    [id          |-> Get(technique, "technique_id", "No ID"),
     name        |-> Get(technique, "technique", "No ID"),
     description |-> Get(technique, "technique_description", "No ID"),
     tactic      |-> JoinStr(Get(technique, "tactic", <<>>), ", ")]

Detail(technique) ==
    [id          |-> Get(technique, "technique_id", "No ID"),
     name        |-> Get(technique, "technique", "No Name"),
     description |-> Get(technique, "technique_description", "No Description"),
     tactic      |-> JoinStr(Get(technique, "tactic", <<>>), ", ")]

TechniqueDetails(techniques) ==
    [i \in 1..Len(techniques) |-> Detail(techniques[i])]

----------------------------------------------------------------------------
(* Lines 67-72: similarities and the top 3 *)

\* For an empty candidate list this is the empty sequence, which is what
\* lines 67-68 give if the library accepts an empty list; the library
\* raising instead is the step EncodeDescriptionsFail.
Similarities(q, details) ==
    [i \in 1..Len(details) |->
        CosSim(q, EncodeDescription(details[i].description))]

SignBits(q, details) ==
    [i \in 1..Len(details) |->
        CosNegative(q, EncodeDescription(details[i].description))]

IndexOrders(n) ==
    {p \in [1..n -> 1..n] : \A i, j \in 1..n : i # j => p[i] # p[j]}

\* np.argsort(-similarities[0]): default kind, which is not a stable sort,
\* so equal keys may come out in any order
Argsort(sims) ==
    {p \in IndexOrders(Len(sims)) :
        \A i, j \in 1..Len(sims) : i < j => (0 - sims[p[i]]) <= (0 - sims[p[j]])}

\* [:3]
Take(order) == SubSeq(order, 1, Min(TopK, Len(order)))

TopMatches(details, sims, negs, indices) ==
    [i \in 1..Len(indices) |->
        [id         |-> details[indices[i]].id,
         name       |-> details[indices[i]].name,
         tactic     |-> details[indices[i]].tactic,
         similarity |-> sims[indices[i]],
         negative   |-> negs[indices[i]]]]

----------------------------------------------------------------------------
(* Line 75: result_text *)

Digit(d) == <<"0", "1", "2", "3", "4", "5", "6", "7", "8", "9">>[d + 1]

\* f"{similarity:.4f}"
Format4f(s, negative) ==
    (IF negative THEN "-" ELSE "")
    \o Digit(Abs(s) \div SimScale) \o "."
    \o Digit((Abs(s) \div 1000) % 10) \o Digit((Abs(s) \div 100) % 10)
    \o Digit((Abs(s) \div 10) % 10) \o Digit(Abs(s) % 10)

FormatMatch(match) ==
    <<"ID: ", match.id, "\n",
      "Name: ", match.name, "\n",
      "Tactic: ", match.tactic, "\n",
      "Similarity: ", Format4f(match.similarity, match.negative)>>

BlankLine == <<"\n", "\n">>

RECURSIVE JoinText(_, _)
JoinText(texts, sep) ==
    IF texts = <<>> THEN <<>>
    ELSE IF Len(texts) = 1 THEN texts[1]
    ELSE texts[1] \o sep \o JoinText(Tail(texts), sep)

FormatResult(top_matches) ==
    JoinText([i \in 1..Len(top_matches) |-> FormatMatch(top_matches[i])],
             BlankLine)

----------------------------------------------------------------------------
(* Inputs *)

\* what entry_sentence may hold when Submit is pressed
SubmitInputs ==
    {<<>>, <<" ", "\n">>, <<" ", "\r", "\n">>, <<"\f">>, <<"U+00A0", "U+3000">>,
     <<" ", "a">>}

\* sentences of a request that is already being served
QuerySentences == {<<" ", "a">>, <<"a", "b">>, <<"b">>}

rFull == [technique_id |-> "T1", technique |-> "Phishing",
          technique_description |-> "d1", tactic |-> <<"initial-access">>]
rNoId == [technique |-> "Exec", technique_description |-> "d2",
          tactic |-> <<"execution", "persistence">>]
rNoNameTactic == [technique_id |-> "T3", technique_description |-> "d1"]
rNoDesc == [technique_id |-> "T4", technique |-> "Wipe",
            tactic |-> <<"impact">>]

RawRecords == {rFull, rNoId, rNoNameTactic, rNoDesc}

\* what lift.get_techniques may return in the interactive specification
Corpora == {<<>>, <<rFull, rNoId, rNoNameTactic, rNoDesc>>}

----------------------------------------------------------------------------
(* State *)

NoVector == <<>>

NewWorker(sentence) ==
    [pc                 |-> "encode",
     sentence           |-> sentence,
     sentence_embedding |-> NoVector,
     techniques         |-> <<>>,
     technique_details  |-> <<>>,
     similarities       |-> <<>>,
     top_matches_indices |-> <<>>,
     top_matches        |-> <<>>,
     result_text        |-> <<>>,
     emitted            |-> <<>>,
     postedAtStart      |-> Len(posted)]

\* lines 95-96, 105 and 124-130 run on the thread of root.mainloop
ByUi == [progress |-> "ui", display |-> "ui", caller |-> "ui"]

W == 1..Len(workers)

\* lines 111-134
Init ==
    /\ workers = <<>>
    /\ progress = 0
    /\ display = <<>>
    /\ queue = <<>>
    /\ armed = TRUE
    /\ infoShown = 0
    /\ errors = {}
    /\ posted = <<>>
    /\ postedBy = <<>>
    /\ nTaken = 0
    /\ writer = ByUi

----------------------------------------------------------------------------
(* update_progress, called from the worker thread.  The widget calls of
   lines 83-84 are made on the worker thread; with the main loop running in
   another thread, tkinter queues the widget command to the thread of the
   main loop, which executes it while the worker waits for the result. *)

\* the widget command applied on the calling thread
EmitDirect(w, value, pc2, rec) ==
    /\ workers' = [workers EXCEPT ![w] =
                     [rec EXCEPT !.pc = pc2,
                                 !.emitted = Append(@, value)]]
    /\ progress' = value
    /\ writer' = [writer EXCEPT !.progress = "worker", !.caller = "worker"]

Emit(w, value, pc2, rec) ==
    /\ workers' = [workers EXCEPT ![w] =
                     [rec EXCEPT !.pc = pc2,
                                 !.emitted = Append(@, value)]]
    /\ progress' = value
    /\ writer' = [writer EXCEPT !.progress = "ui", !.caller = "worker"]

----------------------------------------------------------------------------
(* on_submit *)

OnSubmitDrainsQueue(sentence) ==
    /\ Len(workers) + infoShown < MaxSubmits
    /\ IF IsBlank(sentence)
       THEN /\ infoShown' = infoShown + 1
            /\ UNCHANGED <<workers, progress, display, writer, queue>>
       ELSE /\ progress' = 0
            /\ display' = <<>>
            /\ writer' = ByUi
            /\ queue' = <<>>
            /\ workers' = Append(workers, NewWorker(sentence))
            /\ UNCHANGED infoShown
    /\ UNCHANGED <<armed, errors, posted, postedBy, nTaken>>

OnSubmit(sentence) ==
    /\ Len(workers) + infoShown < MaxSubmits
    /\ IF IsBlank(sentence)
       THEN /\ infoShown' = infoShown + 1
            /\ UNCHANGED <<workers, progress, display, writer>>
       ELSE /\ progress' = 0
            /\ display' = <<>>
            /\ writer' = ByUi
            /\ workers' = Append(workers, NewWorker(sentence))
            /\ UNCHANGED infoShown
    /\ UNCHANGED <<queue, armed, errors, posted, postedBy, nTaken>>

----------------------------------------------------------------------------
(* find_similar_techniques, one action per step of a worker *)

\* lines 44-45
EncodeQuery(w) ==
    /\ workers[w].pc = "encode"
    /\ Emit(w, AfterEncode, "fetch",
            [workers[w] EXCEPT
                !.sentence_embedding = EncodeSentence(workers[w].sentence)])
    /\ UNCHANGED <<display, queue, armed, infoShown, errors,
                   posted, postedBy, nTaken>>

EncodeQueryFailAfterEmit(w) ==
    /\ workers[w].pc = "encode"
    /\ Emit(w, AfterEncode, "failed_encode", workers[w])
    /\ errors' = errors \cup {[w |-> w, step |-> "encode"]}
    /\ UNCHANGED <<display, queue, armed, infoShown,
                   posted, postedBy, nTaken>>

\* lines 46-48
EncodeQueryFail(w) ==
    /\ workers[w].pc = "encode"
    /\ workers' = [workers EXCEPT ![w].pc = "failed_encode"]
    /\ errors' = errors \cup {[w |-> w, step |-> "encode"]}
    /\ UNCHANGED <<writer, progress, display, queue, armed, infoShown,
                   posted, postedBy, nTaken>>

\* lines 51-52
FetchTechniques(w, techniques) ==
    /\ workers[w].pc = "fetch"
    /\ Emit(w, AfterFetch, "rank",
            [workers[w] EXCEPT !.techniques = techniques])
    /\ UNCHANGED <<display, queue, armed, infoShown, errors,
                   posted, postedBy, nTaken>>

FetchFailPartial(w) ==
    /\ workers[w].pc = "fetch"
    /\ workers' = [workers EXCEPT ![w].pc = "failed_fetch"]
    /\ errors' = errors \cup {[w |-> w, step |-> "fetch"]}
    /\ queue' = Append(queue, <<>>)
    /\ posted' = Append(posted, <<>>)
    /\ postedBy' = Append(postedBy, w)
    /\ UNCHANGED <<writer, progress, display, armed, infoShown, nTaken>>

\* lines 53-55
FetchFail(w) ==
    /\ workers[w].pc = "fetch"
    /\ workers' = [workers EXCEPT ![w].pc = "failed_fetch"]
    /\ errors' = errors \cup {[w |-> w, step |-> "fetch"]}
    /\ UNCHANGED <<writer, progress, display, queue, armed, infoShown,
                   posted, postedBy, nTaken>>

\* lines 57-75
RankMatches(w) ==
    /\ workers[w].pc = "rank"
    /\ LET details == TechniqueDetails(workers[w].techniques)
           sims    == Similarities(workers[w].sentence_embedding, details)
           negs    == SignBits(workers[w].sentence_embedding, details)
       IN  \E order \in Argsort(sims) :
             LET indices == Take(order)
                 matches == TopMatches(details, sims, negs, indices)
             IN  workers' = [workers EXCEPT ![w] =
                    [@ EXCEPT !.pc = "post",
                              !.technique_details = details,
                              !.similarities = sims,
                              !.top_matches_indices = indices,
                              !.top_matches = matches,
                              !.result_text = FormatResult(matches)]]
    /\ UNCHANGED <<writer, progress, display, queue, armed, infoShown, errors,
                   posted, postedBy, nTaken>>

\* lines 67-68 raising: no handler encloses them, the thread ends with a
\* traceback.  Any call of the encoder may fail; for an empty candidate
\* list the library is expected to raise (nothing to stack, or a 1 x d by
\* 0 x 1 matrix product), which of the two outcomes it takes depends on the
\* installed version.
EncodeDescriptionsFail(w) ==
    /\ workers[w].pc = "rank"
    /\ workers' = [workers EXCEPT ![w].pc = "crashed"]
    /\ UNCHANGED <<writer, progress, display, queue, armed, infoShown, errors,
                   posted, postedBy, nTaken>>

PutResultTwice(w) ==
    /\ workers[w].pc = "post"
    /\ queue' = queue \o <<workers[w].result_text, workers[w].result_text>>
    /\ posted' = posted \o <<workers[w].result_text, workers[w].result_text>>
    /\ postedBy' = postedBy \o <<w, w>>
    /\ workers' = [workers EXCEPT ![w].pc = "final"]
    /\ UNCHANGED <<writer, progress, display, armed, infoShown, errors, nTaken>>

\* line 76
PutResult(w) ==
    /\ workers[w].pc = "post"
    /\ queue' = Append(queue, workers[w].result_text)
    /\ posted' = Append(posted, workers[w].result_text)
    /\ postedBy' = Append(postedBy, w)
    /\ workers' = [workers EXCEPT ![w].pc = "final"]
    /\ UNCHANGED <<writer, progress, display, armed, infoShown, errors, nTaken>>

FinalProgressBeforePut(w) ==
    /\ workers[w].pc = "post"
    /\ Len(workers[w].emitted) < 3
    /\ Emit(w, AfterRank, "post", workers[w])
    /\ UNCHANGED <<display, queue, armed, infoShown, errors,
                   posted, postedBy, nTaken>>

\* line 77
FinalProgress(w) ==
    /\ workers[w].pc = "final"
    /\ Emit(w, AfterRank, "done", workers[w])
    /\ UNCHANGED <<display, queue, armed, infoShown, errors,
                   posted, postedBy, nTaken>>

----------------------------------------------------------------------------
(* check_queue, the timer callback *)

RearmIfTaken(took) == took

\* line 108: root.after(100, check_queue), whatever the try block did
Rearm(took) == TRUE

InsertAtStart(text, result) == result \o text

\* line 105: result_text.insert(tk.END, result)
InsertAtEnd(text, result) == text \o result

CheckQueue ==
    /\ armed
    /\ IF queue # <<>>
       THEN /\ display' = InsertAtEnd(display, Head(queue))
            /\ queue' = Tail(queue)
            /\ nTaken' = nTaken + 1
            /\ writer' = [writer EXCEPT !.display = "ui"]
       ELSE UNCHANGED <<display, queue, nTaken, writer>>
    /\ armed' = Rearm(queue # <<>>)
    /\ UNCHANGED <<workers, progress, infoShown, errors, posted, postedBy>>

----------------------------------------------------------------------------
(* Specifications *)

Next ==
    \/ \E sentence \in SubmitInputs : OnSubmit(sentence)
    \/ \E w \in W : EncodeQuery(w)
    \/ \E w \in W : EncodeQueryFail(w)
    \/ \E w \in W : \E techniques \in Corpora : FetchTechniques(w, techniques)
    \/ \E w \in W : FetchFail(w)
    \/ \E w \in W : RankMatches(w)
    \/ \E w \in W : EncodeDescriptionsFail(w)
    \/ \E w \in W : PutResult(w)
    \/ \E w \in W : FinalProgress(w)
    \/ CheckQueue

Spec == Init /\ [][Next]_vars

\* the Tk main loop runs every scheduled timer callback
FairSpec == Spec /\ WF_vars(CheckQueue)

\* One request whose query is encoded and whose techniques are fetched:
\* the ranking of every candidate list up to MaxCandidates
RankInit ==
    /\ \E sentence \in QuerySentences :
       \E techniques \in SeqsUpTo(RawRecords, MaxCandidates) :
          workers = <<[pc                 |-> "rank",
                       sentence           |-> sentence,
                       sentence_embedding |-> EncodeSentence(sentence),
                       techniques         |-> techniques,
                       technique_details  |-> <<>>,
                       similarities       |-> <<>>,
                       top_matches_indices |-> <<>>,
                       top_matches        |-> <<>>,
                       result_text        |-> <<>>,
                       emitted            |-> <<AfterEncode, AfterFetch>>,
                       postedAtStart      |-> 0]>>
    /\ progress = AfterFetch
    /\ display = <<>>
    /\ queue = <<>>
    /\ armed = TRUE
    /\ infoShown = 0
    /\ errors = {}
    /\ posted = <<>>
    /\ postedBy = <<>>
    /\ nTaken = 0
    /\ writer = [progress |-> "ui", display |-> "ui", caller |-> "worker"]

RankNext ==
    \/ \E w \in W : RankMatches(w)
    \/ \E w \in W : EncodeDescriptionsFail(w)
    \/ \E w \in W : PutResult(w)
    \/ \E w \in W : FinalProgress(w)
    \/ CheckQueue

RankSpec == RankInit /\ [][RankNext]_vars

----------------------------------------------------------------------------
(* Properties *)

Ranked(w) == workers[w].pc \in {"post", "final", "done"}

Failed(w) == workers[w].pc \in {"failed_encode", "failed_fetch"}

Whole == <<AfterEncode, AfterFetch, AfterRank>>

\* number of result blocks in a text: every block opens with its ID label
RECURSIVE Blocks(_)
Blocks(text) ==
    IF text = <<>> THEN 0
    ELSE (IF Head(text) = "ID: " THEN 1 ELSE 0) + Blocks(Tail(text))

\* what the ranking returns: min(3, n) matches, similarities non-increasing
\* in output order, no candidate left out scoring strictly higher than one
\* returned, and the empty text for n = 0
RankingContract ==
    \A w \in W : Ranked(w) =>
        LET n    == Len(workers[w].techniques)
            sims == workers[w].similarities
            idx  == workers[w].top_matches_indices
            top  == workers[w].top_matches
        IN  /\ Len(sims) = n
            /\ Len(top) = (IF n < 3 THEN n ELSE 3)
            /\ Len(idx) = Len(top)
            /\ \A i \in 1..Len(top) :
                 /\ idx[i] \in 1..n
                 /\ top[i].similarity = sims[idx[i]]
            /\ \A i, j \in 1..Len(top) : i # j => idx[i] # idx[j]
            /\ \A i, j \in 1..Len(top) :
                 i < j => top[i].similarity >= top[j].similarity
            /\ \A j \in 1..n : j \notin Range(idx) =>
                 \A i \in 1..Len(top) : sims[j] <= top[i].similarity
            /\ (n = 0 => workers[w].result_text = <<>>)

\* C1 (as claimed): for a candidate list of any size n >= 0 the ranking
\* returns exactly min(3, n) matches, non-increasing in similarity, with no
\* candidate left out that scores strictly higher than one returned; for
\* n = 0 the result is empty and no error occurs.
C1_Original ==
    /\ RankingContract
    /\ \A w \in W :
         Len(workers[w].emitted) >= 2 /\ workers[w].techniques = <<>>
         => workers[w].pc # "crashed"

\* C2: on_submit with empty or whitespace-only input starts no worker and
\* leaves the progress indicator, the display and the result queue as they
\* were; it only raises the informational notice.
C2_BlankSubmitChangesNothing ==
    [][\A s \in SubmitInputs :
          ((\A i \in DOMAIN s : s[i] \in Whitespace) /\ OnSubmit(s))
          => /\ UNCHANGED <<workers, progress, display, queue>>
             /\ infoShown' = infoShown + 1]_vars

\* a blank submission was made next to a served request whose result is
\* on display
C2_Witness ==
    /\ infoShown = 1
    /\ Len(workers) = 1
    /\ workers[1].pc = "done"
    /\ display # <<>>
    /\ progress = AfterRank

\* C3: a worker whose query encoding or technique fetch failed never puts
\* anything on the result queue, emits no milestone after the failure, and
\* never runs again (no retry).
C3_FailedWorkerStops ==
    /\ [](\A w \in W : Failed(w) =>
            /\ w \notin Range(postedBy)
            /\ workers[w].emitted =
                 (IF workers[w].pc = "failed_encode" THEN <<>>
                                                     ELSE <<AfterEncode>>))
    /\ [][\A w \in W : Failed(w) => workers'[w] = workers[w]]_vars

\* a fetch failed in one worker while another delivered its result
C3_Witness ==
    \E w, v \in W :
        /\ workers[w].pc = "failed_fetch"
        /\ [w |-> w, step |-> "fetch"] \in errors
        /\ workers[v].pc = "done"

\* C4 (as claimed): after two overlapping non-blank submissions that both
\* succeed, the display holds both result texts intact, separated by a
\* blank line.
C4_Original ==
    ( /\ Len(workers) = 2
      /\ workers[2].postedAtStart = 0
      /\ \A w \in W : workers[w].pc \in {"final", "done"}
      /\ \A w \in W : workers[w].result_text # <<>>
      /\ nTaken = 2 )
    => \/ display = workers[1].result_text \o BlankLine
                      \o workers[2].result_text
       \/ display = workers[2].result_text \o BlankLine
                      \o workers[1].result_text

\* C5: the milestones a worker has emitted are a prefix of 20, 50, 100, and
\* each is emitted only once the step it reports has succeeded: 20 with the
\* query encoded, 50 with the techniques fetched, 100 with the ranking done.
C5_MilestonesFollowSteps ==
    \A w \in W :
        /\ IsPrefix(workers[w].emitted, Whole)
        /\ Len(workers[w].emitted) =
             (CASE workers[w].pc \in {"encode", "failed_encode"} -> 0
                [] workers[w].pc \in {"fetch", "failed_fetch"} -> 1
                [] workers[w].pc \in {"rank", "crashed", "post", "final"} -> 2
                [] workers[w].pc = "done" -> 3)
        /\ (Len(workers[w].emitted) >= 1
              => workers[w].sentence_embedding # NoVector)
        /\ (Len(workers[w].emitted) >= 3 => w \in Range(postedBy))

\* one worker emitted all three milestones, another stopped after the first
C5_Witness ==
    \E w, v \in W :
        /\ workers[w].emitted = Whole
        /\ workers[v].emitted = <<AfterEncode>>
        /\ workers[v].pc = "failed_fetch"

\* C6 (as claimed): candidates of equal similarity keep their input order
\* in the result, and of two equal candidates across the top-3 cut-off the
\* earlier one is kept.
C6_Original ==
    \A w \in W : Ranked(w) =>
        LET sims == workers[w].similarities
            idx  == workers[w].top_matches_indices
        IN  /\ \A i, j \in 1..Len(idx) :
                 (i < j /\ sims[idx[i]] = sims[idx[j]]) => idx[i] < idx[j]
            /\ \A i \in 1..Len(idx) : \A j \in 1..Len(sims) :
                 (j \notin Range(idx) /\ sims[j] = sims[idx[i]]) => idx[i] < j

\* C7: a later submission leaves the earlier workers running, and every
\* result put on the queue is taken by check_queue and appended to the
\* display in the order of arrival on the queue.
C7_OverlapAllDeliveredFifo ==
    /\ [](queue = SubSeq(posted, nTaken + 1, Len(posted)))
    /\ [][nTaken' # nTaken =>
            /\ nTaken' = nTaken + 1
            /\ display' = display \o posted[nTaken + 1]]_vars
    /\ [][Len(workers') # Len(workers) =>
            \A w \in W : workers'[w] = workers[w]]_vars
    /\ \A k \in 1..MaxSubmits : (Len(posted) >= k) ~> (nTaken >= k)

\* the second submission was made before the first posted, its result
\* arrived first, and both were inserted in arrival order
C7_Witness ==
    /\ Len(workers) = 2
    /\ workers[2].postedAtStart = 0
    /\ postedBy = <<2, 1>>
    /\ nTaken = 2
    /\ workers[1].result_text # <<>>
    /\ display = workers[2].result_text \o workers[1].result_text

\* C8: check_queue never waits: it can run at every tick, an empty queue
\* leaves the display as it is, and the timer is armed again after every
\* call, so the polling never stops.
C8_PollingNeverBlocks ==
    /\ [](armed /\ ENABLED CheckQueue)
    /\ [][(CheckQueue /\ queue = <<>>) => UNCHANGED <<display, nTaken>>]_vars

\* polling is alive with nothing queued, after a result was taken and with
\* a worker that died
C8_Witness ==
    /\ armed
    /\ queue = <<>>
    /\ nTaken >= 1
    /\ \E w \in W : workers[w].pc = "crashed"

\* C9 (as claimed): every failure of the query encoding, the fetch or the
\* encoding of the descriptions raises an error notification for that
\* submission.
C9_Original ==
    \A w \in W :
        workers[w].pc \in {"failed_encode", "failed_fetch", "crashed"}
        => \E e \in errors : e.w = w

\* C10 (as claimed): the display never shows more than 3 result blocks.
C10_Original == Blocks(display) <= 3

Own(technique, key, placeholder) ==
    IF key \in DOMAIN technique THEN technique[key] ELSE placeholder

OwnTactic(technique) ==
    IF "tactic" \notin DOMAIN technique THEN ""
    ELSE IF Len(technique.tactic) = 0 THEN ""
    ELSE IF Len(technique.tactic) = 1 THEN technique.tactic[1]
    ELSE technique.tactic[1] \o ", " \o technique.tactic[2]

\* C13: every raw record gives one derived record, in the same order, with
\* the record's own id, name and description where present and "No ID",
\* "No Name", "No Description" where missing, and with the tactics joined,
\* the empty string when the tactic list is missing.
C13_DerivedRecordDefaults ==
    \A w \in W : Ranked(w) =>
        /\ Len(workers[w].technique_details) = Len(workers[w].techniques)
        /\ \A i \in 1..Len(workers[w].techniques) :
             LET t == workers[w].techniques[i]
                 d == workers[w].technique_details[i]
             IN  /\ d.id = Own(t, "technique_id", "No ID")
                 /\ d.name = Own(t, "technique", "No Name")
                 /\ d.description =
                      Own(t, "technique_description", "No Description")
                 /\ d.tactic = OwnTactic(t)

\* a fetch returned records missing the id, the name and tactics, and the
\* description, next to a complete one
C13_Witness ==
    \E w \in W :
        /\ Ranked(w)
        /\ workers[w].techniques = <<rNoId, rFull, rNoNameTactic, rNoDesc>>
        /\ workers[w].technique_details[1].id = "No ID"
        /\ workers[w].technique_details[3].name = "No Name"
        /\ workers[w].technique_details[4].description = "No Description"

\* C14 (as claimed): between two on_submit resets the progress indicator
\* never decreases, whatever the interleaving of the callbacks of the
\* workers in flight.
C14_Original ==
    [][Len(workers') = Len(workers) => progress' >= progress]_vars

Count(seq, x) == Cardinality({i \in DOMAIN seq : seq[i] = x})

\* C15: a submission puts at most one result on the queue, a worker that
\* ran to the end has put exactly one and a worker that failed none; the
\* results queued plus the results taken never exceed the non-blank
\* submissions.
C15_OneResultPerSubmission ==
    /\ \A w \in W :
         /\ Count(postedBy, w) <= 1
         /\ (Count(postedBy, w) = 1 <=> workers[w].pc \in {"final", "done"})
         /\ (workers[w].pc \in {"failed_encode", "failed_fetch", "crashed"}
               => Count(postedBy, w) = 0)
    /\ Len(queue) + nTaken = Len(postedBy)
    /\ Len(queue) + nTaken <= Len(workers)
    /\ \A i \in DOMAIN postedBy : postedBy[i] \in W

\* of two submissions one delivered its result and the other failed
C15_Witness ==
    /\ Len(workers) = 2
    /\ workers[1].pc = "crashed"
    /\ workers[2].pc = "done"
    /\ postedBy = <<2>>
    /\ nTaken = 1

\* C16: a worker that has emitted 100 has already put its result on the
\* queue: the result is still queued or was taken by check_queue.
C16_ResultQueuedBeforeHundred ==
    \A w \in W :
        AfterRank \in Range(workers[w].emitted) =>
            \E k \in DOMAIN postedBy :
                /\ postedBy[k] = w
                /\ posted[k] = workers[w].result_text
                /\ (k > nTaken => queue[k - nTaken] = workers[w].result_text)

\* the indicator reads 100 while the result is queued and not on display
C16_Witness ==
    /\ progress = AfterRank
    /\ Len(workers) = 1
    /\ workers[1].pc = "done"
    /\ workers[1].result_text # <<>>
    /\ queue = <<workers[1].result_text>>
    /\ display = <<>>

\* C17: on_submit with non-blank input sets the indicator to 0, empties the
\* display, starts exactly one worker for that input, and leaves the queue
\* and the workers already started as they were.
C17_SubmitResetsAndStartsOne ==
    [][\A s \in SubmitInputs :
          ((\E i \in DOMAIN s : s[i] \notin Whitespace) /\ OnSubmit(s))
          => /\ progress' = 0
             /\ display' = <<>>
             /\ Len(workers') = Len(workers) + 1
             /\ workers'[Len(workers')].pc = "encode"
             /\ workers'[Len(workers')].sentence = s
             /\ \A w \in W : workers'[w] = workers[w]
             /\ UNCHANGED <<queue, infoShown, armed>>]_vars

\* the result of the first submission was inserted after the display was
\* cleared for the second one
C17_Witness ==
    /\ Len(workers) = 2
    /\ postedBy = <<1>>
    /\ nTaken = 1
    /\ display # <<>>
    /\ display = workers[1].result_text
    /\ progress = 0

====
